---- MODULE Spec2Model ----
(***************************************************************************)
(* Model of tools/pixel_upgrade.py: the pixel transform pipeline, the      *)
(* target resolver, the preservation guard and the orchestrator (main).    *)
(*                                                                         *)
(* Representation choices                                                  *)
(*   - An image is a record [mode, w, h, px]; px is the row-major sequence *)
(*     of pixels, <<r,g,b,a>> in mode "RGBA" and <<r,g,b>> in mode "RGB".  *)
(*   - A file content is an image (a decodable PNG) or Garbage (bytes that *)
(*     PIL cannot identify); NoFile marks an absent path.                  *)
(*   - A path is a sequence of segments, a segment is a sequence of        *)
(*     tokens (the file name original_rock.png is                          *)
(*     <<"original_","rock",".png">>), so that str.startswith, "in" and    *)
(*     Path.with_name are computed, not assumed.                           *)
(*   - Floating point values are kept as exact rationals: luminance is     *)
(*     scaled by 10000, strength and amount by 100.                        *)
(***************************************************************************)
EXTENDS Integers, Sequences, FiniteSets, TLC

(***************************************************************************)
(* Generic helpers                                                         *)
(***************************************************************************)
Range(s) == {s[i] : i \in 1..Len(s)}

Min2(a, b) == IF a < b THEN a ELSE b

Max2(a, b) == IF a > b THEN a ELSE b

\* Python round() of the rational p/q, q > 0: round half to even.
RoundHalfEven(p, q) ==
    LET f == (2 * p + q) \div (2 * q)
        tie == ((2 * p + q) % (2 * q)) = 0
    IN  IF tie /\ (f % 2 = 1) THEN f - 1 ELSE f

(***************************************************************************)
(* Pixel helpers (pixel_upgrade.py lines 35-61)                            *)
(***************************************************************************)
clamp(x) == IF x < 0 THEN 0 ELSE IF x > 255 THEN 255 ELSE x

\* 0.2126 r + 0.7152 g + 0.0722 b, scaled by 10000
luminance(p) == 2126 * p[1] + 7152 * p[2] + 722 * p[3]

\* the 8 neighbours in the generator's order: dy outer, dx inner, self skipped
iter_neighbors(x, y) ==
    << <<x - 1, y - 1>>, <<x, y - 1>>, <<x + 1, y - 1>>,
       <<x - 1, y>>,                   <<x + 1, y>>,
       <<x - 1, y + 1>>, <<x, y + 1>>, <<x + 1, y + 1>> >>

\* x, y are 0-based as in the source; px is 1-based
PixAt(px, w, x, y) == px[y * w + x + 1]

InBounds(w, h, x, y) == x >= 0 /\ y >= 0 /\ x < w /\ y < h

\* mutant: the diagonal neighbours count as well
is_boundary8(px, w, h, x, y) ==
    /\ PixAt(px, w, x, y)[4] # 0
    /\ \E n \in Range(iter_neighbors(x, y)) :
          \/ ~InBounds(w, h, n[1], n[2])
          \/ PixAt(px, w, n[1], n[2])[4] = 0

is_boundary(px, w, h, x, y) ==
    /\ PixAt(px, w, x, y)[4] # 0
    /\ \E n \in { <<x - 1, y>>, <<x + 1, y>>, <<x, y - 1>>, <<x, y + 1>> } :
          \/ ~InBounds(w, h, n[1], n[2])
          \/ PixAt(px, w, n[1], n[2])[4] = 0

\* Image.convert("RGBA"): an RGB pixel gets alpha 255
ConvertRGBA(img) ==
    IF img.mode = "RGBA" THEN img
    ELSE [mode |-> "RGBA", w |-> img.w, h |-> img.h,
          px |-> [i \in 1..Len(img.px) |->
                     <<img.px[i][1], img.px[i][2], img.px[i][3], 255>>]]

(***************************************************************************)
(* Stage 1: speckle_cleanup (lines 64-92)                                  *)
(***************************************************************************)
AlphaThreshold == 1

\* colours of the in-bounds neighbours with alpha > threshold, in scan order
OpaqueNeighborColors(px, w, h, x, y, th) ==
    LET nb == SelectSeq(iter_neighbors(x, y),
                 LAMBDA n : InBounds(w, h, n[1], n[2])
                            /\ PixAt(px, w, n[1], n[2])[4] > th)
    IN  [k \in 1..Len(nb) |-> PixAt(px, w, nb[k][1], nb[k][2])]

CountIn(s, c) == Cardinality({k \in 1..Len(s) : s[k] = c})

\* max(colors.items(), key=count)[0]: the first-inserted key of maximal count
MostCommon(s) ==
    LET best == CHOOSE m \in {CountIn(s, s[k]) : k \in 1..Len(s)} :
                    \A k \in 1..Len(s) : CountIn(s, s[k]) <= m
        first == CHOOSE k \in 1..Len(s) :
                    /\ CountIn(s, s[k]) = best
                    /\ \A j \in 1..(k - 1) : CountIn(s, s[j]) # best
    IN  s[first]

\* the body of the y/x loop for the pixel at 1-based index i; it reads px,
\* the input pixels, never the output being built
SpeckleAt(px, w, h, i, alpha_threshold) ==
    LET colors == OpaqueNeighborColors(px, w, h, (i - 1) % w, (i - 1) \div w,
                                       alpha_threshold)
    IN  IF px[i][4] <= alpha_threshold THEN px[i]
        ELSE IF Len(colors) <= 1 /\ Len(colors) > 0
             THEN MostCommon(colors)
             ELSE px[i]

\* mutant: the loop writes into the buffer it reads (out is px, not px[:])
RECURSIVE SpeckleInPlace(_, _, _, _, _)
SpeckleInPlace(px, w, h, i, alpha_threshold) ==
    IF i > Len(px) THEN px
    ELSE SpeckleInPlace([px EXCEPT ![i] = SpeckleAt(px, w, h, i, alpha_threshold)],
                        w, h, i + 1, alpha_threshold)

speckle_cleanup_in_place(img0, alpha_threshold) ==
    CHOOSE res \in
        { [mode |-> "RGBA", w |-> img.w, h |-> img.h,
           px |-> SpeckleInPlace(img.px, img.w, img.h, 1, alpha_threshold)]
          : img \in {ConvertRGBA(img0)} } : TRUE

\* (a quantifier binds img to the converted image, computed once)
speckle_cleanup(img0, alpha_threshold) ==
    CHOOSE res \in
        { [mode |-> "RGBA", w |-> img.w, h |-> img.h,
           px |-> [i \in 1..Len(img.px) |->
                      SpeckleAt(img.px, img.w, img.h, i, alpha_threshold)]]
          : img \in {ConvertRGBA(img0)} } : TRUE

(***************************************************************************)
(* Stage 2: quantize_if_needed (lines 95-108)                              *)
(***************************************************************************)
RGBOf(p) == <<p[1], p[2], p[3]>>

\* set((r, g, b) for (r, g, b, a) in data if a != 0)
UniqueOpaqueRGB(img) == {RGBOf(img.px[i]) : i \in {k \in 1..Len(img.px) : img.px[k][4] # 0}}

\* lexicographic order on RGB triples, used to make the cuts deterministic
RGBLess(a, b) ==
    \/ a[1] < b[1]
    \/ a[1] = b[1] /\ a[2] < b[2]
    \/ a[1] = b[1] /\ a[2] = b[2] /\ a[3] < b[3]

ChanRange(box, c) ==
    LET vals == {box[k][c] : k \in 1..Len(box)}
        hi == CHOOSE v \in vals : \A u \in vals : u <= v
        lo == CHOOSE v \in vals : \A u \in vals : v <= u
    IN  hi - lo

BoxSpread(box) == Max2(ChanRange(box, 1), Max2(ChanRange(box, 2), ChanRange(box, 3)))

LongestChan(box) ==
    CHOOSE c \in 1..3 : /\ ChanRange(box, c) = BoxSpread(box)
                        /\ \A d \in 1..(c - 1) : ChanRange(box, d) # BoxSpread(box)

\* cut a box of pixels at the median of its longest channel
SplitBox(box) ==
    LET c == LongestChan(box)
        srt == SortSeq(box, LAMBDA a, b : a[c] < b[c] \/ (a[c] = b[c] /\ RGBLess(a, b)))
        lowMax == srt[Len(srt) \div 2][c]
        cutAt == IF srt[Len(srt)][c] > lowMax
                 THEN CHOOSE k \in 1..Len(srt) :
                        /\ srt[k][c] <= lowMax
                        /\ (k = Len(srt) \/ srt[k + 1][c] > lowMax)
                 ELSE CHOOSE k \in 1..Len(srt) :
                        /\ srt[k][c] < lowMax
                        /\ srt[k + 1][c] = lowMax
    IN  << SubSeq(srt, 1, cutAt), SubSeq(srt, cutAt + 1, Len(srt)) >>

RECURSIVE MedianCutBoxes(_, _)
MedianCutBoxes(boxes, n) ==
    LET cand == {k \in 1..Len(boxes) : BoxSpread(boxes[k]) > 0}
    IN  IF Len(boxes) >= n \/ cand = {} THEN boxes
        ELSE LET k == CHOOSE j \in cand :
                        /\ \A i \in cand : Len(boxes[i]) <= Len(boxes[j])
                        /\ \A i \in cand : i < j => Len(boxes[i]) < Len(boxes[j])
                 two == SplitBox(boxes[k])
             IN  MedianCutBoxes(SubSeq(boxes, 1, k - 1) \o two
                                \o SubSeq(boxes, k + 1, Len(boxes)), n)

RECURSIVE SumChan(_, _, _)
SumChan(box, c, k) == IF k = 0 THEN 0 ELSE box[k][c] + SumChan(box, c, k - 1)

\* the palette entry of a box: the per-channel mean of its pixels
BoxColor(box) ==
    [c \in 1..3 |-> RoundHalfEven(SumChan(box, c, Len(box)), Len(box))]

\* rgb.quantize(colors, MEDIANCUT, dither NONE).convert("RGB"): every pixel,
\* transparent ones included, takes the colour of the box that holds it
MedianCutRGB(px, max_colors) ==
    LET all == [i \in 1..Len(px) |-> RGBOf(px[i])]
        boxes == MedianCutBoxes(<<all>>, max_colors)
        BoxOf(c) == CHOOSE k \in 1..Len(boxes) : c \in Range(boxes[k])
    IN  [i \in 1..Len(px) |-> BoxColor(boxes[BoxOf(all[i])])]

\* lines 103-108: RGB from the quantized image, alpha from the input
QuantizeRGBA(img, max_colors) ==
    CHOOSE res \in
        { [mode |-> "RGBA", w |-> img.w, h |-> img.h,
           px |-> [i \in 1..Len(img.px) |->
                      <<q[i][1], q[i][2], q[i][3], img.px[i][4]>>]]
          : q \in {MedianCutRGB(img.px, max_colors)} } : TRUE

\* mutant: the early return of line 101-102 is lost
quantize_always(img0, max_colors) ==
    CHOOSE res \in
        { QuantizeRGBA(img, max_colors) : img \in {ConvertRGBA(img0)} } : TRUE

quantize_if_needed(img0, max_colors) ==
    CHOOSE res \in
        { IF Cardinality(UniqueOpaqueRGB(img)) <= max_colors THEN img
          ELSE QuantizeRGBA(img, max_colors)
          : img \in {ConvertRGBA(img0)} } : TRUE

(***************************************************************************)
(* Stage 3: contrast_normalize (lines 111-143); strength is in hundredths  *)
(***************************************************************************)
\* the sorted luminances of the pixels with alpha != 0
SortedLums(px) ==
    LET opq == SelectSeq(px, LAMBDA p : p[4] # 0)
    IN  SortSeq([k \in 1..Len(opq) |-> luminance(opq[k])], LAMBDA a, b : a < b)

\* lums[int(pct * (len(lums) - 1))], 0-based index, pct in hundredths
Percentile(lums, pct) == lums[((pct * (Len(lums) - 1)) \div 100) + 1]

\* Python round() of i + p/q (i an integer, q > 0): round half to even
RoundHalfEvenFrom(i, p, q) ==
    LET f == i + ((2 * p + q) \div (2 * q))
        tie == ((2 * p + q) % (2 * q)) = 0
    IN  IF tie /\ (f % 2 = 1) THEN f - 1 ELSE f

\* adj(c): t = (c - lo) / (hi - lo) clamped to [0, 1];
\* t = 0.5 + (t - 0.5) * (1 + strength); clamp(int(round(t * 255)))
\* t * 255 = 51 * x / (40 * den) with x = 100 * den + (2 * num - den) * (100 + strength);
\* the quotient is taken in two steps to stay within 32-bit integers
adj(c, lo, hi, strength) ==
    LET den == hi - lo
        num == Max2(0, Min2(den, 10000 * c - lo))
        x == 100 * den + (2 * num - den) * (100 + strength)
        k == x \div den
        r == x % den
    IN  clamp(RoundHalfEvenFrom((51 * k) \div 40,
                                ((51 * k) % 40) * den + 51 * r, 40 * den))

\* mutant: the a == 0 test of line 137 is lost
ContrastApplyAll(img, lo, hi, strength) ==
    [mode |-> "RGBA", w |-> img.w, h |-> img.h,
     px |-> [i \in 1..Len(img.px) |->
                <<adj(img.px[i][1], lo, hi, strength),
                  adj(img.px[i][2], lo, hi, strength),
                  adj(img.px[i][3], lo, hi, strength),
                  img.px[i][4]>>]]

\* lines 135-143 for the window lo..hi
ContrastApply(img, lo, hi, strength) ==
    [mode |-> "RGBA", w |-> img.w, h |-> img.h,
     px |-> [i \in 1..Len(img.px) |->
                IF img.px[i][4] = 0 THEN img.px[i]
                ELSE <<adj(img.px[i][1], lo, hi, strength),
                       adj(img.px[i][2], lo, hi, strength),
                       adj(img.px[i][3], lo, hi, strength),
                       img.px[i][4]>>]]

\* hi <= lo + 1e-6: luminances are multiples of 1e-4, so hi <= lo
contrast_normalize(img0, strength) ==
    CHOOSE res \in
        { IF Len(lums) = 0 THEN img
          ELSE CHOOSE r2 \in
                 { IF hi <= lo THEN img ELSE ContrastApply(img, lo, hi, strength)
                   : lo \in {Percentile(lums, 5)}, hi \in {Percentile(lums, 95)} } : TRUE
          : img \in {ConvertRGBA(img0)}, lums \in {SortedLums(ConvertRGBA(img0).px)} } : TRUE

(***************************************************************************)
(* Stage 4: outline_emphasis (lines 146-170); amount is in hundredths      *)
(***************************************************************************)
\* min(opaque, key=luminance): the first pixel of minimal luminance
Darkest(px) ==
    LET opq == SelectSeq(px, LAMBDA p : p[4] # 0)
        k == CHOOSE j \in 1..Len(opq) :
                /\ \A i \in 1..Len(opq) : luminance(opq[j]) <= luminance(opq[i])
                /\ \A i \in 1..(j - 1) : luminance(opq[i]) > luminance(opq[j])
    IN  RGBOf(opq[k])

\* clamp(int(round(c * (1 - amount) + d * amount)))
Blend(c, d, amount) == clamp(RoundHalfEven(c * (100 - amount) + d * amount, 100))

\* lines 157-170 for the reference colour dark
OutlineApply(img, dark, amount) ==
    [mode |-> "RGBA", w |-> img.w, h |-> img.h,
     px |-> [i \in 1..Len(img.px) |->
                IF is_boundary(img.px, img.w, img.h, (i - 1) % img.w, (i - 1) \div img.w)
                THEN <<Blend(img.px[i][1], dark[1], amount),
                       Blend(img.px[i][2], dark[2], amount),
                       Blend(img.px[i][3], dark[3], amount),
                       img.px[i][4]>>
                ELSE img.px[i]]]

outline_emphasis(img0, amount) ==
    CHOOSE res \in
        { IF \A i \in 1..Len(img.px) : img.px[i][4] = 0 THEN img
          ELSE CHOOSE r2 \in {OutlineApply(img, dark, amount) : dark \in {Darkest(img.px)}} : TRUE
          : img \in {ConvertRGBA(img0)} } : TRUE

(***************************************************************************)
(* upgrade_image (lines 240-260)                                           *)
(***************************************************************************)
Kinds == {"icon", "sheet", "image"}

MaxColors(kind) == IF kind = "icon" THEN 20 ELSE IF kind = "sheet" THEN 64 ELSE 48

ContrastStrength(kind) == IF kind = "icon" THEN 12 ELSE IF kind = "sheet" THEN 10 ELSE 10

OutlineAmount(kind) == IF kind = "icon" THEN 40 ELSE IF kind = "sheet" THEN 30 ELSE 30

\* lines 255-260: each stage takes the previous stage's output
upgrade_image(img, kind) ==
    CHOOSE o4 \in
      { outline_emphasis(o3, OutlineAmount(kind)) : o3 \in
        { contrast_normalize(o2, ContrastStrength(kind)) : o2 \in
          { quantize_if_needed(o1, MaxColors(kind)) : o1 \in
            { speckle_cleanup(o0, AlphaThreshold) : o0 \in {ConvertRGBA(img)} } } } } : TRUE

(***************************************************************************)
(* Paths.  A path is a sequence of segments and a segment a sequence of    *)
(* tokens, so that the string operations of the source are computed.       *)
(***************************************************************************)
Prefix == "original_"

DotDot == <<"..">>

Dot == <<".">>

\* str.lower() on the tokens that occur in the model
Lower(tok) ==
    IF tok = "ICON" THEN "icon"
    ELSE IF tok = "Icons" THEN "icons"
    ELSE tok

LowerSeg(seg) == [k \in 1..Len(seg) |-> Lower(seg[k])]

\* Path(s) / str(Path(s)): pathlib drops "." segments but keeps ".."
PurePath(p) == SelectSeq(p, LAMBDA seg : seg # Dot)

\* Path.resolve() without symlinks: "." dropped, ".." pops the parent
RECURSIVE ResolveFrom(_, _)
ResolveFrom(done, rest) ==
    IF rest = <<>> THEN done
    ELSE IF Head(rest) = Dot THEN ResolveFrom(done, Tail(rest))
    ELSE IF Head(rest) = DotDot
         THEN ResolveFrom(IF done = <<>> THEN done
                          ELSE SubSeq(done, 1, Len(done) - 1), Tail(rest))
    ELSE ResolveFrom(Append(done, Head(rest)), Tail(rest))

\* (root / p).resolve(), kept relative to root
Resolve(p) == ResolveFrom(<<>>, p)

PathName(p) == p[Len(p)]

\* name.startswith(prefix)
StartsWith(name, prefix) == Len(name) >= 1 /\ name[1] = prefix

\* abs_path.with_name(prefix + abs_path.name)
PreservedPath(p, prefix) ==
    SubSeq(p, 1, Len(p) - 1) \o << <<prefix>> \o PathName(p) >>

\* "/seg/" in str(p).lower(), for a relative path: a whole inner segment
HasInnerSegment(p, word) ==
    \E k \in 2..(Len(p) - 1) : LowerSeg(p[k]) = <<word>>

\* mutant: the sheet segments are tested before the icon patterns
infer_kind_sheet_first(p) ==
    LET name == LowerSeg(PathName(p))
    IN  IF \E w \in {"players", "enemies", "bosses", "vfx"} : HasInnerSegment(p, w)
        THEN "sheet"
        ELSE IF \/ HasInnerSegment(p, "icons")
                \/ \E k \in 1..Len(name) : name[k] = "icon"
        THEN "icon"
        ELSE "image"

\* infer_kind_from_path (lines 179-185)
infer_kind_from_path(p) ==
    LET name == LowerSeg(PathName(p))
    IN  IF \/ HasInnerSegment(p, "icons")
           \/ (Len(name) >= 3 /\ SubSeq(name, Len(name) - 2, Len(name)) = <<"_", "icon", ".png">>)
           \/ \E k \in 1..Len(name) : name[k] = "icon"
        THEN "icon"
        ELSE IF \E w \in {"players", "enemies", "bosses", "vfx"} : HasInnerSegment(p, w)
        THEN "sheet"
        ELSE "image"

(***************************************************************************)
(* The project tree and the registry document used by the model            *)
(***************************************************************************)
DirAssets == << <<"assets">> >>

DirIcons == << <<"assets">>, <<"icons">> >>

DirProps == << <<"assets">>, <<"props">> >>

DirNone == << <<"nope">> >>

FileGem == DirIcons \o << <<"gem", ".png">> >>

FileRock == DirProps \o << <<"rock", ".png">> >>

FileGhost == DirProps \o << <<"ghost", ".png">> >>

\* the paths that can hold an original, and all paths the run can touch
Originals == {FileGem, FileRock, FileGhost}

AllFiles == Originals \cup {PreservedPath(f, Prefix) : f \in Originals}

ExistingDirs == {DirAssets, DirIcons, DirProps}

\* runtime/registry.json: {"assets": [{path, type, tags}, ...]}
RegistryAssets ==
    << [path |-> FileGem, type |-> "icon", tags |-> {"enemy"}],
       [path |-> FileGhost, type |-> "image", tags |-> {"enemy"}],
       [path |-> FileRock, type |-> "spritesheet", tags |-> {"player", "enemy"}],
       [path |-> DirProps \o <<DotDot, <<"props">>, <<"rock", ".png">> >>,
        type |-> "image", tags |-> {"player"}],
       [path |-> PreservedPath(FileRock, Prefix), type |-> "image", tags |-> {"player"}],
       [path |-> << <<"assets">>, Dot, <<"props">>, <<"rock", ".png">> >>,
        type |-> "icon", tags |-> {"player"}] >>

Tags == {"", "player", "enemy"}

\* --dirs after split(",") and strip()
DirChoices ==
    { <<>>, <<DirIcons>>, <<DirProps>>, <<DirAssets>>,
      <<DirNone, DirProps \o <<DotDot, <<"icons">> >> >> }

(***************************************************************************)
(* File contents                                                           *)
(***************************************************************************)
\* every content is a record of the same shape, so that contents compare
NoFile == [mode |-> "absent", w |-> 0, h |-> 0, px |-> <<>>]

Garbage == [mode |-> "garbage", w |-> 0, h |-> 0, px |-> <<>>]

T0 == <<0, 0, 0, 0>>

ImgA == [mode |-> "RGBA", w |-> 2, h |-> 2,
         px |-> << <<200, 40, 40, 255>>, <<40, 200, 40, 255>>,
                   <<90, 90, 250, 255>>, T0 >>]

ImgB == [mode |-> "RGB", w |-> 2, h |-> 2,
         px |-> << <<250, 250, 250>>, <<10, 20, 30>>,
                   <<120, 130, 140>>, <<60, 200, 90>> >>]

IsImage(c) == c # NoFile /\ c # Garbage

(***************************************************************************)
(* Target resolver (lines 188-237)                                         *)
(***************************************************************************)
\* the "# Deduplicate" loops: first occurrence of each str(t.path) is kept
RECURSIVE DedupFrom(_, _, _)
DedupFrom(ts, seen, acc) ==
    IF ts = <<>> THEN acc
    ELSE IF Head(ts).path \in seen THEN DedupFrom(Tail(ts), seen, acc)
    ELSE DedupFrom(Tail(ts), seen \cup {Head(ts).path}, Append(acc, Head(ts)))

Dedup(ts) == DedupFrom(ts, {}, <<>>)

\* lines 192-204: one registry entry to a Target
RegistryTarget(a) ==
    LET p == PurePath(a.path)
    IN  [path |-> p,
         kind |-> IF a.type = "spritesheet" THEN "sheet"
                  ELSE IF a.type = "icon" THEN "icon"
                  ELSE infer_kind_from_path(p)]

load_targets_from_registry(assets, tag) ==
    LET sel == SelectSeq(assets, LAMBDA a : tag \in a.tags)
    IN  Dedup([k \in 1..Len(sel) |-> RegistryTarget(sel[k])])

IsUnder(f, d) == Len(f) > Len(d) /\ SubSeq(f, 1, Len(d)) = d

\* the files abs_d.rglob("*.png") can yield
RglobSet(files, d) ==
    {f \in AllFiles : /\ files[f] # NoFile
                      /\ IsUnder(f, d)
                      /\ PathName(f)[Len(PathName(f))] = ".png"}

\* rglob yields in directory order, which the file system chooses
Orderings(S) ==
    {q \in [1..Cardinality(S) -> S] : \A i, j \in 1..Cardinality(S) : q[i] = q[j] => i = j}

\* lines 219-227 for one directory, for one enumeration order
ScanDir(files, d, prefix) ==
    LET abs_d == Resolve(d)
    IN  IF abs_d \notin ExistingDirs THEN {<<>>}
        ELSE { LET keep == SelectSeq(q, LAMBDA f : ~StartsWith(PathName(f), prefix))
               IN  [k \in 1..Len(keep) |->
                       [path |-> keep[k], kind |-> infer_kind_from_path(keep[k])]]
               : q \in Orderings(RglobSet(files, abs_d)) }

RECURSIVE ScanDirs(_, _, _)
ScanDirs(files, dirs, prefix) ==
    IF dirs = <<>> THEN {<<>>}
    ELSE {a \o b : a \in ScanDir(files, Head(dirs), prefix),
                   b \in ScanDirs(files, Tail(dirs), prefix)}

\* the lists load_targets_from_dirs can return
load_targets_from_dirs(files, dirs, prefix) ==
    {Dedup(ts) : ts \in ScanDirs(files, dirs, prefix)}

(***************************************************************************)
(* Orchestrator state                                                      *)
(***************************************************************************)
MaxRuns == 2

VARIABLES
    fs,              \* the files under root: path -> content or NoFile
    registryExists,  \* registry_path.exists()
    pc,              \* "idle" between runs, else the position inside main
    args,            \* the command line of the current (last) run
    targets,         \* final, the deduplicated target list
    idx,             \* position of the for loop in final (1-based)
    changed,
    skipped,
    out,             \* the lines printed by the current (last) run
    exit,            \* exit status of the last finished run
    runs,            \* number of runs started
    fs0,             \* history: fs when the current (last) run started
    orig,            \* history: content of a path when it was first processed
    lastKind,        \* history: kind of the last upgrade written to a path
    renames,         \* history: number of os.replace calls per source path
    writes,          \* history: number of upgraded.save calls per path
    ppc,             \* parallel batch: the position of each target's worker
    pbuf,            \* parallel batch: each worker's local "upgraded" image
    ppos,            \* upgrade_image: number of its statements executed
    psrc,            \* upgrade_image: the argument img
    pkind,           \* upgrade_image: the argument kind
    pout,            \* upgrade_image: the local variable out
    ptrace,          \* history: the stage calls made, with input and output
    kentry,          \* kind resolution: the registry asset or scanned path
    ktarget          \* kind resolution: the Target built from it

orchVars == <<fs, registryExists, pc, args, targets, idx, changed, skipped, out,
              exit, runs, fs0, orig, lastKind, renames, writes>>

parVars == <<ppc, pbuf>>

pipeVars == <<ppos, psrc, pkind, pout, ptrace>>

kindVars == <<kentry, ktarget>>

vars == <<orchVars, parVars, pipeVars, kindVars>>

\* "no content recorded yet" in the history variable orig
Unset == [mode |-> "unset", w |-> 0, h |-> 0, px |-> <<>>]

NoKind == "none"

\* exit is a string: "running" until the process ends, then its status
NoExit == "running"

\* one printed line
Line(msg, path, a, b) == [msg |-> msg, path |-> path, changed |-> a, skipped |-> b]

\* a project tree that no run has touched yet
FreshTree ==
    \E g \in {NoFile, ImgA, Garbage}, r \in {NoFile, ImgB, Garbage} :
        fs = [f \in AllFiles |-> IF f = FileGem THEN g
                                 ELSE IF f = FileRock THEN r ELSE NoFile]

\* no parallel batch is running
ParIdle == ppc = <<>> /\ pbuf = <<>>

\* no upgrade_image call is being traced
PipeIdle ==
    /\ ppos = 0
    /\ psrc = NoFile
    /\ pkind = NoKind
    /\ pout = NoFile
    /\ ptrace = <<>>

\* no kind resolution is being traced
NoEntry == [source |-> "none", path |-> <<>>, type |-> "none"]

NoTarget == [path |-> <<>>, kind |-> NoKind]

KindIdle == kentry = NoEntry /\ ktarget = NoTarget

Init ==
    /\ FreshTree
    /\ KindIdle
    /\ registryExists \in BOOLEAN
    /\ ParIdle
    /\ PipeIdle
    /\ pc = "idle"
    /\ args = [tag |-> "", dirs |-> <<>>, dry |-> FALSE]
    /\ targets = <<>>
    /\ idx = 1
    /\ changed = 0
    /\ skipped = 0
    /\ out = <<>>
    /\ exit = NoExit
    /\ runs = 0
    /\ fs0 = fs
    /\ orig = [f \in AllFiles |-> Unset]
    /\ lastKind = [f \in AllFiles |-> NoKind]
    /\ renames = [f \in AllFiles |-> 0]
    /\ writes = [f \in AllFiles |-> 0]

(***************************************************************************)
(* main, lines 284-321: argument handling and target resolution            *)
(***************************************************************************)
\* mutant: the registry is only required when no directory is given
RegistryFatalUnlessDirs(tag, dirs) == tag # "" /\ ~registryExists /\ dirs = <<>>

\* lines 299-302: the registry is required and absent
RegistryFatal(tag, dirs) == tag # "" /\ ~registryExists

\* the lists that lines 296-317 can build
FinalTargets(tag, dirs) ==
    LET reg == IF tag # "" THEN load_targets_from_registry(RegistryAssets, tag) ELSE <<>>
        scans == IF dirs # <<>> THEN load_targets_from_dirs(fs, dirs, Prefix) ELSE {<<>>}
    IN  {Dedup(reg \o sc) : sc \in scans}

StartRun(tag, dirs, dry) ==
    /\ pc = "idle"
    /\ runs < MaxRuns
    /\ runs' = runs + 1
    /\ args' = [tag |-> tag, dirs |-> dirs, dry |-> dry]
    /\ fs0' = fs
    /\ idx' = 1
    /\ changed' = 0
    /\ skipped' = 0
    /\ IF RegistryFatal(tag, dirs)
       THEN /\ out' = << Line("registry missing", <<>>, 0, 0) >>
            /\ exit' = "2"
            /\ targets' = <<>>
            /\ pc' = "idle"
       ELSE \E final \in FinalTargets(tag, dirs) :
              /\ targets' = final
              /\ IF final = <<>>
                 THEN /\ out' = << Line("no targets", <<>>, 0, 0) >>
                      /\ exit' = "0"
                      /\ pc' = "idle"
                 ELSE /\ out' = <<>>
                      /\ exit' = NoExit
                      /\ pc' = "loop"
    /\ UNCHANGED <<fs, registryExists, orig, lastKind, renames, writes>>
    /\ UNCHANGED <<parVars, pipeVars, kindVars>>

(***************************************************************************)
(* preserve_and_upgrade (lines 263-281) with the loop body of main         *)
(* (lines 325-336), in the three steps between which the file system can   *)
(* be observed: the checks, the rename, and decode-upgrade-save            *)
(***************************************************************************)
CurTarget == targets[idx]

CurAbs == Resolve(CurTarget.path)

CurPreserved == PreservedPath(CurAbs, Prefix)

\* lines 264-272 and, for the early returns, lines 327-336; dry is args.dry
PU_CheckWith(dry) ==
    /\ pc = "loop"
    /\ idx <= Len(targets)
    /\ IF fs[CurAbs] = NoFile
       THEN /\ out' = Append(out, Line("missing", CurTarget.path, 0, 0))
            /\ skipped' = IF args.dry THEN skipped ELSE skipped + 1
            /\ idx' = idx + 1
            /\ UNCHANGED <<pc, orig>>
       ELSE IF StartsWith(PathName(CurAbs), Prefix)
       THEN /\ out' = IF args.dry
                      THEN Append(out, Line("prefixed", CurTarget.path, 0, 0))
                      ELSE out
            /\ skipped' = IF args.dry THEN skipped ELSE skipped + 1
            /\ idx' = idx + 1
            /\ UNCHANGED <<pc, orig>>
       ELSE IF dry
       THEN /\ out' = Append(out, Line("would preserve", CurTarget.path, 0, 0))
            /\ idx' = idx + 1
            /\ UNCHANGED <<pc, skipped, orig>>
       ELSE /\ pc' = "preserve"
            /\ orig' = IF orig[CurAbs] = Unset
                       THEN [orig EXCEPT ![CurAbs] = fs[CurAbs]] ELSE orig
            /\ UNCHANGED <<out, skipped, idx>>
    /\ UNCHANGED <<fs, registryExists, args, targets, changed, exit, runs, fs0,
                   lastKind, renames, writes>>
    /\ UNCHANGED <<parVars, pipeVars, kindVars>>

\* mutant: the dry_run test of line 271 is lost
PU_CheckIgnoringDryRun == PU_CheckWith(FALSE)

PU_Check == PU_CheckWith(args.dry)

\* lines 274-276: if not preserved.exists(): os.replace(abs_path, preserved);
\* absent is the value of "not preserved.exists()"
PU_PreserveIf(absent) ==
    /\ pc = "preserve"
    /\ IF absent
       THEN /\ fs' = [fs EXCEPT ![CurPreserved] = fs[CurAbs], ![CurAbs] = NoFile]
            /\ renames' = [renames EXCEPT ![CurAbs] = @ + 1]
       ELSE UNCHANGED <<fs, renames>>
    /\ pc' = "upgrade"
    /\ UNCHANGED <<registryExists, args, targets, idx, changed, skipped, out, exit,
                   runs, fs0, orig, lastKind, writes>>
    /\ UNCHANGED <<parVars, pipeVars, kindVars>>

\* mutant: os.replace without the exists() guard
PU_PreserveAlways == PU_PreserveIf(TRUE)

PU_Preserve == PU_PreserveIf(fs[CurPreserved] = NoFile)

\* lines 278-281 and 330-332: Image.open(src), upgrade_image, save(dst);
\* an undecodable source raises out of main (no handler): exit status 1
PU_UpgradeWith(src, dst) ==
    /\ pc = "upgrade"
    /\ IF IsImage(fs[src])
       THEN /\ fs' = [fs EXCEPT ![dst] = upgrade_image(fs[src], CurTarget.kind)]
            /\ lastKind' = [lastKind EXCEPT ![CurAbs] = CurTarget.kind]
            /\ writes' = [writes EXCEPT ![CurAbs] = @ + 1]
            /\ changed' = changed + 1
            /\ idx' = idx + 1
            /\ pc' = "loop"
            /\ UNCHANGED exit
       ELSE /\ exit' = "1"
            /\ pc' = "idle"
            /\ UNCHANGED <<fs, lastKind, writes, changed, idx>>
    /\ UNCHANGED <<registryExists, args, targets, skipped, out, runs, fs0, orig, renames>>
    /\ UNCHANGED <<parVars, pipeVars, kindVars>>

\* mutant: the upgraded image is saved over the preserved original
PU_UpgradeOntoPreserved == PU_UpgradeWith(CurPreserved, CurPreserved)

\* mutant: the file at the original path is the source when it exists
PU_UpgradeFromCurrent ==
    PU_UpgradeWith(IF fs[CurAbs] # NoFile THEN CurAbs ELSE CurPreserved, CurAbs)

PU_Upgrade == PU_UpgradeWith(CurPreserved, CurAbs)

\* mutant: lines 338-339 are indented into the loop body
FinishInsideLoop ==
    /\ pc = "loop"
    /\ idx > 1
    /\ out' = Append(out, Line("summary", <<>>, changed, skipped))
    /\ exit' = "0"
    /\ pc' = "idle"
    /\ UNCHANGED <<fs, registryExists, args, targets, idx, changed, skipped, runs,
                   fs0, orig, lastKind, renames, writes>>
    /\ UNCHANGED <<parVars, pipeVars, kindVars>>

\* lines 338-339: the summary line and return 0
Finish ==
    /\ pc = "loop"
    /\ idx > Len(targets)
    /\ out' = Append(out, Line("summary", <<>>, changed, skipped))
    /\ exit' = "0"
    /\ pc' = "idle"
    /\ UNCHANGED <<fs, registryExists, args, targets, idx, changed, skipped, runs,
                   fs0, orig, lastKind, renames, writes>>
    /\ UNCHANGED <<parVars, pipeVars, kindVars>>

Next ==
    \/ \E tag \in Tags, dirs \in DirChoices, dry \in BOOLEAN : StartRun(tag, dirs, dry)
    \/ PU_Check
    \/ PU_Preserve
    \/ PU_Upgrade
    \/ Finish

Spec == Init /\ [][Next]_vars

(***************************************************************************)
(* Properties of the preservation guard and the orchestrator               *)
(***************************************************************************)
PreservedOf(f) == PreservedPath(f, Prefix)

PrefixedFiles == {f \in AllFiles : StartsWith(PathName(f), Prefix)}

ActionLines(lines) ==
    SelectSeq(lines, LAMBDA l : l.msg \in {"missing", "prefixed", "would preserve"})

HasLine(lines, msg) == \E k \in 1..Len(lines) : lines[k].msg = msg

\* C1: over any sequence of runs with the same prefix, a file whose name
\* starts with the prefix is never written, replaced, removed or renamed once
\* it exists; it comes into existence only by the rename of its original, and
\* each original is renamed at most once (a second preserve_and_upgrade of the
\* same target renames nothing).
C1_PreservedWrittenOnce ==
    [][ /\ \A f \in PrefixedFiles : fs[f] # NoFile => fs'[f] = fs[f]
        /\ \A f \in Originals :
              (fs[PreservedOf(f)] = NoFile /\ fs'[PreservedOf(f)] # NoFile)
                 => /\ fs'[PreservedOf(f)] = fs[f]
                    /\ renames'[f] = renames[f] + 1
        /\ \A f \in AllFiles : renames'[f] <= 1 ]_vars

\* a second preserve_and_upgrade of a target has passed lines 275-276
C1_Witness ==
    /\ pc = "upgrade"
    /\ writes[CurAbs] >= 1
    /\ renames[CurAbs] = 1
    /\ fs[CurPreserved] = orig[CurAbs]

\* C2: whenever the file at a processed target's original path is absent or
\* differs from what it held before the target was first processed, the
\* preserved file holds exactly that original content.
C2_PreservedBeforeMutation ==
    \A f \in Originals :
        (orig[f] # Unset /\ fs[f] # orig[f]) => fs[PreservedOf(f)] = orig[f]

\* between the rename and the save: the original path is empty
C2_Witness ==
    /\ pc = "upgrade"
    /\ ~args.dry
    /\ fs[CurAbs] = NoFile
    /\ IsImage(orig[CurAbs])
    /\ fs[CurPreserved] = orig[CurAbs]

\* C3: after every run that upgraded a target, the file at the original path is
\* the pipeline applied to the preserved original (for the kind of that run),
\* however many runs came before.
C3_OutputFromPreservedOriginal ==
    \A f \in Originals :
        lastKind[f] # NoKind =>
            /\ fs[PreservedOf(f)] = orig[f]
            /\ fs[f] = upgrade_image(orig[f], lastKind[f])

\* a target upgraded twice, for which upgrading the upgraded output would differ
C3_Witness ==
    \E f \in Originals :
        /\ writes[f] >= 2
        /\ pc = "idle"
        /\ fs[f] # upgrade_image(fs[f], lastKind[f])

\* C4: a dry run changes no file, never reaches the rename or the save, and
\* prints exactly one action line per deduplicated target, in order.
C4_DryRunChangesNothing ==
    (runs > 0 /\ args.dry) =>
        /\ fs = fs0
        /\ pc \in {"idle", "loop"}
        /\ pc = "loop" => Len(out) = idx - 1
        /\ (pc = "idle" /\ exit = "0") =>
              /\ Len(ActionLines(out)) = Len(targets)
              /\ \A k \in 1..Len(targets) : ActionLines(out)[k].path = targets[k].path

\* a finished dry run over several targets, one of which it would have upgraded
C4_Witness ==
    /\ runs > 0
    /\ args.dry
    /\ pc = "idle"
    /\ Len(targets) >= 2
    /\ HasLine(out, "would preserve")
    /\ HasLine(out, "missing")

\* C5: a missing target is recorded and skipped without changing any file, the
\* loop goes on to the next target, and a run that met a missing target
\* processes all its targets and exits with status 0.
C5_MissingTargetSkipped ==
    [][ /\ (pc = "loop" /\ idx <= Len(targets) /\ fs[CurAbs] = NoFile)
            => /\ fs' = fs
               /\ pc' = "loop"
               /\ idx' = idx + 1
               /\ out' = Append(out, Line("missing", CurTarget.path, 0, 0))
        /\ (pc # "idle" /\ pc' = "idle" /\ HasLine(out, "missing"))
            => /\ exit' = "0"
               /\ idx' = Len(targets) + 1 ]_vars

\* C6: a target whose file cannot be decoded is skipped and recorded, the loop
\* goes on to the next target and the run reaches its summary.
C6_DecodeErrorSkipped ==
    [][ /\ (pc = "upgrade" /\ ~IsImage(fs[CurPreserved]))
            => /\ pc' = "loop"
               /\ idx' = idx + 1
               /\ skipped' = skipped + 1
        /\ (pc # "idle" /\ pc' = "idle") => HasLine(out', "summary") ]_vars

\* C7: with a non-empty tag and no registry file the run has ended with a
\* non-zero status, with no target resolved and every file as it was.
C7_RegistryNotFoundIsFatal ==
    (runs > 0 /\ args.tag # "" /\ ~registryExists) =>
        /\ pc = "idle"
        /\ exit = "2"
        /\ targets = <<>>
        /\ fs = fs0
        /\ out = << Line("registry missing", <<>>, 0, 0) >>

\* a run with a tag and with directories that hold files, but no registry
C7_Witness ==
    /\ runs > 0
    /\ args.tag # ""
    /\ ~registryExists
    /\ args.dirs = <<DirAssets>>
    /\ fs[FileGem] # NoFile
    /\ exit = "2"

\* C8: no two targets of the final list denote the same file once their paths
\* are normalized.
C8_DedupByNormalizedPath ==
    \A i, j \in 1..Len(targets) :
        i # j => Resolve(targets[i].path) # Resolve(targets[j].path)

(***************************************************************************)
(* Parallel processing of one batch.  Every target of the resolver's list  *)
(* has a worker that executes preserve_and_upgrade (lines 263-281, not a   *)
(* dry run) statement by statement; the workers interleave freely.         *)
(***************************************************************************)
ParAbs(i) == Resolve(targets[i].path)

ParPreserved(i) == PreservedPath(ParAbs(i), Prefix)

ParStep(i, from, to) ==
    /\ ppc[i] = from
    /\ ppc' = [ppc EXCEPT ![i] = to]

\* lines 264-268: the existence and the prefix test
ParCheck(i) ==
    /\ ParStep(i, "check",
               IF fs[ParAbs(i)] = NoFile \/ StartsWith(PathName(ParAbs(i)), Prefix)
               THEN "done" ELSE "test")
    /\ UNCHANGED <<orchVars, pbuf, pipeVars, kindVars>>

\* line 275: not preserved.exists()
ParTest(i) ==
    /\ ParStep(i, "test", IF fs[ParPreserved(i)] = NoFile THEN "rename" ELSE "open")
    /\ UNCHANGED <<orchVars, pbuf, pipeVars, kindVars>>

\* line 276: os.replace(abs_path, preserved) replaces an existing destination
\* and raises FileNotFoundError when the source is gone
ParRename(i) ==
    /\ ppc[i] = "rename"
    /\ IF fs[ParAbs(i)] = NoFile
       THEN /\ ppc' = [ppc EXCEPT ![i] = "moved"]
            /\ UNCHANGED fs
       ELSE /\ ppc' = [ppc EXCEPT ![i] = "open"]
            /\ fs' = [fs EXCEPT ![ParPreserved(i)] = fs[ParAbs(i)], ![ParAbs(i)] = NoFile]
    /\ UNCHANGED <<registryExists, pc, args, targets, idx, changed, skipped, out,
                   exit, runs, fs0, orig, lastKind, renames, writes>>
    /\ UNCHANGED <<pbuf, pipeVars, kindVars>>

\* lines 278-279: Image.open(preserved) and upgrade_image
ParOpen(i) ==
    /\ ppc[i] = "open"
    /\ IF IsImage(fs[ParPreserved(i)])
       THEN /\ pbuf' = [pbuf EXCEPT ![i] = upgrade_image(fs[ParPreserved(i)], targets[i].kind)]
            /\ ppc' = [ppc EXCEPT ![i] = "save"]
       ELSE /\ ppc' = [ppc EXCEPT ![i] = "undecodable"]
            /\ UNCHANGED pbuf
    /\ UNCHANGED <<orchVars, pipeVars, kindVars>>

\* line 280: upgraded.save(abs_path)
ParSave(i) ==
    /\ ParStep(i, "save", "done")
    /\ fs' = [fs EXCEPT ![ParAbs(i)] = pbuf[i]]
    /\ UNCHANGED <<registryExists, pc, args, targets, idx, changed, skipped, out,
                   exit, runs, fs0, orig, lastKind, renames, writes>>
    /\ UNCHANGED <<pbuf, pipeVars, kindVars>>

\* one non-dry batch over a fresh tree, its targets resolved as main does
InitPar ==
    /\ KindIdle
    /\ FreshTree
    /\ registryExists = TRUE
    /\ pc = "parallel"
    /\ \E tag \in Tags, dirs \in DirChoices :
          /\ args = [tag |-> tag, dirs |-> dirs, dry |-> FALSE]
          /\ targets \in FinalTargets(tag, dirs)
    /\ targets # <<>>
    /\ idx = 1
    /\ changed = 0
    /\ skipped = 0
    /\ out = <<>>
    /\ exit = NoExit
    /\ runs = 1
    /\ fs0 = fs
    /\ orig = [f \in AllFiles |-> Unset]
    /\ lastKind = [f \in AllFiles |-> NoKind]
    /\ renames = [f \in AllFiles |-> 0]
    /\ writes = [f \in AllFiles |-> 0]
    /\ ppc = [i \in 1..Len(targets) |-> "check"]
    /\ pbuf = [i \in 1..Len(targets) |-> NoFile]
    /\ PipeIdle

NextPar ==
    \/ \E i \in DOMAIN ppc : ParCheck(i)
    \/ \E i \in DOMAIN ppc : ParTest(i)
    \/ \E i \in DOMAIN ppc : ParRename(i)
    \/ \E i \in DOMAIN ppc : ParOpen(i)
    \/ \E i \in DOMAIN ppc : ParSave(i)

SpecPar == InitPar /\ [][NextPar]_vars

\* the files after main's loop (lines 325-336) has processed ts one after
\* another, starting from files; an undecodable source ends the loop
RECURSIVE SeqRun(_, _)
SeqRun(files, ts) ==
    IF ts = <<>> THEN files
    ELSE LET abs == Resolve(Head(ts).path)
             pres == PreservedPath(abs, Prefix)
         IN  IF files[abs] = NoFile \/ StartsWith(PathName(abs), Prefix)
             THEN SeqRun(files, Tail(ts))
             ELSE CHOOSE res \in
                    { IF IsImage(kept[pres])
                      THEN CHOOSE r2 \in
                             { SeqRun(g, Tail(ts)) : g \in
                               { [kept EXCEPT ![abs] = upgrade_image(kept[pres], Head(ts).kind)] } }
                             : TRUE
                      ELSE kept
                      : kept \in { IF files[pres] = NoFile
                                   THEN [files EXCEPT ![pres] = files[abs], ![abs] = NoFile]
                                   ELSE files } } : TRUE

ParFinished == \A i \in DOMAIN ppc : ppc[i] \in {"done", "moved", "undecodable"}

\* C9: in every interleaving of the workers no step finds its file moved by
\* another target, no preserved original is overwritten, and the final files
\* are those of processing the list sequentially.
C9_ParallelEqualsSequential ==
    pc = "parallel" =>
        /\ \A i \in DOMAIN ppc : ppc[i] # "moved"
        /\ \A f \in Originals : fs[PreservedOf(f)] \in {NoFile, fs0[f]}
        /\ ParFinished => fs = SeqRun(fs0, targets)

(***************************************************************************)
(* upgrade_image statement by statement (lines 255-260)                    *)
(***************************************************************************)
TR == <<200, 40, 40, 255>>

TG == <<40, 200, 40, 255>>

\* a nearly transparent pixel: alpha 1 is neither above the cleanup threshold
\* nor zero
TF == <<250, 250, 250, 1>>

PipePalette == {T0, TF, TR, TG}

PipeDims == { <<2, 2>>, <<3, 1>> }

\* a 7x3 image of 20 colours, all opaque: the five pixels in the middle of
\* the second row are enclosed, and the first of them has the colour of the
\* second pixel of the first row
MidPixel(k) == <<30 + 10 * k, 120, 60, 255>>

ImgWide ==
    [mode |-> "RGBA", w |-> 7, h |-> 3,
     px |-> << <<0, 0, 0, 255>>, MidPixel(1), <<0, 0, 40, 255>>, MidPixel(2),
               <<255, 255, 0, 255>>, MidPixel(3), <<255, 255, 255, 255>>,
               MidPixel(4), MidPixel(1), MidPixel(5), MidPixel(6), MidPixel(7),
               MidPixel(8), MidPixel(9),
               MidPixel(10), MidPixel(11), MidPixel(12), MidPixel(13), MidPixel(14),
               MidPixel(15), MidPixel(16) >>]

PipeImages ==
    UNION { { [mode |-> "RGBA", w |-> d[1], h |-> d[2], px |-> q]
              : q \in [1..(d[1] * d[2]) -> PipePalette] } : d \in PipeDims }
    \cup {ImgA, ImgB, ImgWide}

InitPipe ==
    /\ KindIdle
    /\ fs = [f \in AllFiles |-> NoFile]
    /\ registryExists = TRUE
    /\ pc = "pipeline"
    /\ args = [tag |-> "", dirs |-> <<>>, dry |-> FALSE]
    /\ targets = <<>>
    /\ idx = 1
    /\ changed = 0
    /\ skipped = 0
    /\ out = <<>>
    /\ exit = NoExit
    /\ runs = 0
    /\ fs0 = fs
    /\ orig = [f \in AllFiles |-> Unset]
    /\ lastKind = [f \in AllFiles |-> NoKind]
    /\ renames = [f \in AllFiles |-> 0]
    /\ writes = [f \in AllFiles |-> 0]
    /\ ParIdle
    /\ ppos = 0
    /\ psrc \in PipeImages
    /\ pkind \in Kinds
    /\ pout = psrc
    /\ ptrace = <<>>

\* line 255: out = img.convert("RGBA")
PipeConvert ==
    /\ pc = "pipeline"
    /\ ppos = 0
    /\ pout' = ConvertRGBA(psrc)
    /\ ppos' = 1
    /\ UNCHANGED <<orchVars, parVars, kindVars, psrc, pkind, ptrace>>

\* one of lines 256-259: out = stage(input, ...)
PipeStage(pos, name, input, Stage(_)) ==
    /\ pc = "pipeline"
    /\ ppos = pos
    /\ \E res \in {Stage(input)} :
          /\ pout' = res
          /\ ptrace' = Append(ptrace, [name |-> name, inp |-> input, outp |-> res])
    /\ ppos' = pos + 1
    /\ UNCHANGED <<orchVars, parVars, kindVars, psrc, pkind>>

\* line 256
PipeCleanup ==
    PipeStage(1, "cleanup", pout, LAMBDA b : speckle_cleanup(b, AlphaThreshold))

\* line 257
PipeQuantize ==
    PipeStage(2, "quantize", pout, LAMBDA b : quantize_if_needed(b, MaxColors(pkind)))

\* mutant: contrast is applied to the converted image, not to the output
\* of the stage before it
PipeContrastOnInput ==
    PipeStage(3, "contrast", ConvertRGBA(psrc),
              LAMBDA b : contrast_normalize(b, ContrastStrength(pkind)))

\* line 258
PipeContrast ==
    PipeStage(3, "contrast", pout, LAMBDA b : contrast_normalize(b, ContrastStrength(pkind)))

\* line 259
PipeOutline ==
    PipeStage(4, "outline", pout, LAMBDA b : outline_emphasis(b, OutlineAmount(pkind)))

NextPipe ==
    \/ PipeConvert
    \/ PipeCleanup
    \/ PipeQuantize
    \/ PipeContrast
    \/ PipeOutline

SpecPipe == InitPipe /\ [][NextPipe]_vars

StageNames == <<"cleanup", "quantize", "contrast", "outline">>

PipeReturned == pc = "pipeline" /\ ppos = Len(StageNames) + 1

\* C10: for every kind and input the stage calls made so far are a prefix of
\* cleanup, quantize, contrast, outline, each called once on the output of the
\* call before it (the first on the converted input); the value returned is
\* the output of the fourth call.
C10_StagesInFixedOrder ==
    pc = "pipeline" =>
        /\ Len(ptrace) = (IF ppos = 0 THEN 0 ELSE ppos - 1)
        /\ \A k \in 1..Len(ptrace) :
              /\ ptrace[k].name = StageNames[k]
              /\ ptrace[k].inp = (IF k = 1 THEN ConvertRGBA(psrc) ELSE ptrace[k - 1].outp)
        /\ PipeReturned =>
              /\ Len(ptrace) = Len(StageNames)
              /\ pout = ptrace[Len(StageNames)].outp
              /\ pout = outline_emphasis(
                          contrast_normalize(
                            quantize_if_needed(
                              speckle_cleanup(ConvertRGBA(psrc), AlphaThreshold),
                              MaxColors(pkind)),
                            ContrastStrength(pkind)),
                          OutlineAmount(pkind))

\* a finished call in which cleanup, contrast and outline each changed the
\* image and applying contrast and outline in the other order would differ
C10_Witness ==
    /\ PipeReturned
    /\ ptrace[1].inp # ptrace[1].outp
    /\ ptrace[3].inp # ptrace[3].outp
    /\ ptrace[4].inp # ptrace[4].outp
    /\ pout # contrast_normalize(outline_emphasis(ptrace[3].inp, OutlineAmount(pkind)),
                                 ContrastStrength(pkind))

(***************************************************************************)
(* The four stages called on their own (lines 64-170), each on every       *)
(* image of StageImages                                                    *)
(***************************************************************************)
\* a transparent pixel that still carries a colour
TC == <<90, 120, 150, 0>>

StagePalette == {T0, TC, TF, TR, TG}

\* 3x3 images: the four corners alike, the centre and its four 4-neighbours free
CrossImages ==
    { [mode |-> "RGBA", w |-> 3, h |-> 3,
       px |-> << c, q[1], c, q[2], q[3], q[4], c, q[5], c >>]
      : c \in {T0, TR}, q \in [1..5 -> PipePalette] }

\* two colours of equal luminance: 2126*17 + 722*49 = 7152*10
TE1 == <<100, 100, 100, 255>>

TE2 == <<83, 110, 51, 255>>

EqualLumImages ==
    { [mode |-> "RGBA", w |-> 2, h |-> 2, px |-> q] : q \in [1..4 -> {TE1, TE2, TC}] }

StageImages ==
    UNION { { [mode |-> "RGBA", w |-> d[1], h |-> d[2], px |-> q]
              : q \in [1..(d[1] * d[2]) -> StagePalette] } : d \in PipeDims }
    \cup CrossImages
    \cup EqualLumImages
    \cup {ImgA, ConvertRGBA(ImgB)}

\* the values of max_colors tried: 1..MaxQuantColors
MaxQuantColors == 3

InitStage ==
    /\ KindIdle
    /\ fs = [f \in AllFiles |-> NoFile]
    /\ registryExists = TRUE
    /\ pc = "stage"
    /\ args = [tag |-> "", dirs |-> <<>>, dry |-> FALSE]
    /\ targets = <<>>
    /\ idx = 1
    /\ changed = 0
    /\ skipped = 0
    /\ out = <<>>
    /\ exit = NoExit
    /\ runs = 0
    /\ fs0 = fs
    /\ orig = [f \in AllFiles |-> Unset]
    /\ lastKind = [f \in AllFiles |-> NoKind]
    /\ renames = [f \in AllFiles |-> 0]
    /\ writes = [f \in AllFiles |-> 0]
    /\ ParIdle
    /\ ppos = 0
    /\ psrc \in StageImages
    /\ pkind = NoKind
    /\ pout = psrc
    /\ ptrace = <<>>

\* one call stage(psrc, arg), recorded with its argument
StageCall(name, arg, res) ==
    /\ pc = "stage"
    /\ ppos = 0
    /\ pout' = res
    /\ ptrace' = << [name |-> name, inp |-> psrc, outp |-> res, arg |-> arg] >>
    /\ ppos' = 1
    /\ UNCHANGED <<orchVars, parVars, kindVars, psrc, pkind>>

StageCleanup ==
    \E res \in {speckle_cleanup(psrc, AlphaThreshold)} :
        StageCall("cleanup", AlphaThreshold, res)

StageQuantize ==
    \E m \in 1..MaxQuantColors :
        \E res \in {quantize_if_needed(psrc, m)} : StageCall("quantize", m, res)

StageContrast ==
    \E k \in Kinds :
        \E res \in {contrast_normalize(psrc, ContrastStrength(k))} :
            StageCall("contrast", ContrastStrength(k), res)

StageOutline ==
    \E k \in Kinds :
        \E res \in {outline_emphasis(psrc, OutlineAmount(k))} :
            StageCall("outline", OutlineAmount(k), res)

NextStage ==
    \/ StageCleanup
    \/ StageQuantize
    \/ StageContrast
    \/ StageOutline

SpecStage == InitStage /\ [][NextStage]_vars

\* the call made, if it was a call of the stage called name
Called(name) == pc = "stage" /\ ppos = 1 /\ ptrace[1].name = name

\* 0-based column and row of the pixel at 1-based index p
ColOf(img, p) == (p - 1) % img.w

RowOf(img, p) == (p - 1) \div img.w

\* the pixels of img other than p that touch p, diagonals included, and whose
\* alpha is above th
OpaqueAround(img, p, th) ==
    { q \in 1..Len(img.px) :
        /\ q # p
        /\ ColOf(img, q) - ColOf(img, p) \in {-1, 0, 1}
        /\ RowOf(img, q) - RowOf(img, p) \in {-1, 0, 1}
        /\ img.px[q][4] > th }

\* C11: speckle cleanup gives every pixel that is opaque (alpha above the
\* threshold) and has exactly one opaque 8-neighbour in the input that
\* neighbour's input RGBA, and leaves every other pixel as in the input.
C11_SpeckleFromInputBuffer ==
    Called("cleanup") =>
        LET i == ptrace[1].inp
            o == ptrace[1].outp
        IN  /\ o.w = i.w /\ o.h = i.h /\ Len(o.px) = Len(i.px)
            /\ \A p \in 1..Len(i.px) :
                  IF i.px[p][4] > AlphaThreshold
                     /\ Cardinality(OpaqueAround(i, p, AlphaThreshold)) = 1
                  THEN \E q \in OpaqueAround(i, p, AlphaThreshold) : o.px[p] = i.px[q]
                  ELSE o.px[p] = i.px[p]

\* two adjacent isolated pixels of different colours have exchanged colours
C11_Witness ==
    /\ Called("cleanup")
    /\ \E p, q \in 1..Len(psrc.px) :
          /\ psrc.px[p] # psrc.px[q]
          /\ OpaqueAround(psrc, p, AlphaThreshold) = {q}
          /\ OpaqueAround(psrc, q, AlphaThreshold) = {p}
          /\ psrc.px[p][4] > AlphaThreshold
          /\ pout.px[p] = psrc.px[q]
          /\ pout.px[q] = psrc.px[p]

\* the RGB triples of the pixels of img whose alpha is not 0
VisibleRGB(img) ==
    { <<c[1], c[2], c[3]>> : c \in {img.px[p] : p \in {q \in 1..Len(img.px) : img.px[q][4] # 0}} }

\* C12: quantization returns its input when the input has at most max_colors
\* distinct RGB triples among the pixels with alpha != 0; otherwise the output
\* has at most max_colors such triples and every pixel keeps its alpha.
C12_QuantizeNoOpOrWithinLimit ==
    Called("quantize") =>
        LET i == ptrace[1].inp
            o == ptrace[1].outp
            m == ptrace[1].arg
        IN  IF Cardinality(VisibleRGB(i)) <= m
            THEN o = i
            ELSE /\ Cardinality(VisibleRGB(o)) <= m
                 /\ o.w = i.w /\ o.h = i.h /\ Len(o.px) = Len(i.px)
                 /\ \A p \in 1..Len(i.px) : o.px[p][4] = i.px[p][4]

\* a call that reduced the colours of an image with a pixel of alpha 1
C12_Witness ==
    /\ Called("quantize")
    /\ Cardinality(VisibleRGB(psrc)) > ptrace[1].arg
    /\ pout # psrc
    /\ \E p \in 1..Len(psrc.px) : psrc.px[p] = TF /\ pout.px[p][4] = 1

\* the pixels of img with alpha != 0 all have one luminance (or there is none)
OneLuminance(img) ==
    \A p, q \in 1..Len(img.px) :
        (img.px[p][4] # 0 /\ img.px[q][4] # 0)
            => luminance(img.px[p]) = luminance(img.px[q])

\* C13: contrast normalization leaves every pixel with alpha 0 as it is in all
\* four channels, leaves every alpha as it is, and returns its input when the
\* pixels with alpha != 0 all have the same luminance or there is none.
C13_ContrastFrame ==
    Called("contrast") =>
        LET i == ptrace[1].inp
            o == ptrace[1].outp
        IN  /\ o.w = i.w /\ o.h = i.h /\ Len(o.px) = Len(i.px)
            /\ \A p \in 1..Len(i.px) :
                  /\ o.px[p][4] = i.px[p][4]
                  /\ i.px[p][4] = 0 => o.px[p] = i.px[p]
            /\ OneLuminance(i) => o = i

\* a call that changed the image next to a transparent pixel carrying a colour
C13_Witness ==
    /\ Called("contrast")
    /\ ~OneLuminance(psrc)
    /\ pout # psrc
    /\ \E p \in 1..Len(psrc.px) : psrc.px[p] = TC /\ pout.px[p] = TC
    /\ \E p \in 1..Len(psrc.px) : psrc.px[p][4] = 1 /\ pout.px[p] # psrc.px[p]

\* a call on pixels of two colours and one luminance
C13_EqualLuminanceReached ==
    /\ Called("contrast")
    /\ OneLuminance(psrc)
    /\ \E p, q \in 1..Len(psrc.px) :
          psrc.px[p][4] # 0 /\ psrc.px[q][4] # 0 /\ psrc.px[p] # psrc.px[q]

\* the pixel at index p has its four 4-connected neighbours inside the image
\* and none of them is transparent
Enclosed(img, p) ==
    /\ ColOf(img, p) > 0 /\ ColOf(img, p) < img.w - 1
    /\ RowOf(img, p) > 0 /\ RowOf(img, p) < img.h - 1
    /\ \A q \in {p - 1, p + 1, p - img.w, p + img.w} : img.px[q][4] # 0

\* C14: outline emphasis keeps every alpha and leaves identical every pixel
\* that is transparent in its input or whose four 4-connected neighbours are
\* inside the image and not transparent in its input.
C14_OutlineOnlyBoundary ==
    Called("outline") =>
        LET i == ptrace[1].inp
            o == ptrace[1].outp
        IN  /\ o.w = i.w /\ o.h = i.h /\ Len(o.px) = Len(i.px)
            /\ \A p \in 1..Len(i.px) :
                  /\ o.px[p][4] = i.px[p][4]
                  /\ (i.px[p][4] = 0 \/ Enclosed(i, p)) => o.px[p] = i.px[p]

\* an enclosed pixel next to a transparent corner kept its colour while a
\* pixel of the same colour on the boundary was darkened
C14_Witness ==
    /\ Called("outline")
    /\ \E p, q \in 1..Len(psrc.px) :
          /\ psrc.px[p][4] # 0
          /\ Enclosed(psrc, p)
          /\ psrc.px[1][4] = 0
          /\ psrc.px[q] = psrc.px[p]
          /\ pout.px[q] # psrc.px[q]
          /\ pout.px[p] = psrc.px[p]

(***************************************************************************)
(* Kind resolution on its own: one registry asset (lines 196-204) or one   *)
(* scanned path (line 227) to a Target                                     *)
(***************************************************************************)
KindFirst == { <<"assets">>, <<"icons">>, <<"players">> }

KindMiddle ==
    { <<"icons">>, <<"Icons">>, <<"players">>, <<"enemies">>, <<"bosses">>,
      <<"vfx">>, <<"props">> }

KindNames ==
    { <<"rock", ".png">>, <<"gem", "_", "icon", ".png">>, <<"ICON", "bat", ".png">>,
      <<"lex", "icon", "s", ".png">>, <<"vfx", ".png">> }

\* relative paths of one to three directories and a file name
KindPaths ==
    { <<a, n>> : a \in KindFirst, n \in KindNames }
    \cup { <<a, m, n>> : a \in KindFirst, m \in KindMiddle, n \in KindNames }
    \cup { << <<"assets">>, m, k, n >> : m \in KindMiddle, k \in KindMiddle, n \in KindNames }

\* a.get("type", "image"): an asset without a type has "image"
KindTypes == {"spritesheet", "icon", "image", "audio"}

KindEntries ==
    { [source |-> "registry", path |-> p, type |-> t] : p \in KindPaths, t \in KindTypes }
    \cup { [source |-> "dirs", path |-> p, type |-> "none"] : p \in KindPaths }

InitKind ==
    /\ fs = [f \in AllFiles |-> NoFile]
    /\ registryExists = TRUE
    /\ pc = "kind"
    /\ args = [tag |-> "", dirs |-> <<>>, dry |-> FALSE]
    /\ targets = <<>>
    /\ idx = 1
    /\ changed = 0
    /\ skipped = 0
    /\ out = <<>>
    /\ exit = NoExit
    /\ runs = 0
    /\ fs0 = fs
    /\ orig = [f \in AllFiles |-> Unset]
    /\ lastKind = [f \in AllFiles |-> NoKind]
    /\ renames = [f \in AllFiles |-> 0]
    /\ writes = [f \in AllFiles |-> 0]
    /\ ParIdle
    /\ PipeIdle
    /\ kentry \in KindEntries
    /\ ktarget = NoTarget

\* lines 196-204
KindFromRegistry ==
    /\ pc = "kind"
    /\ ktarget = NoTarget
    /\ kentry.source = "registry"
    /\ ktarget' = RegistryTarget([path |-> kentry.path, type |-> kentry.type, tags |-> {}])
    /\ UNCHANGED <<orchVars, parVars, pipeVars, kentry>>

\* line 227
KindFromScan ==
    /\ pc = "kind"
    /\ ktarget = NoTarget
    /\ kentry.source = "dirs"
    /\ ktarget' = [path |-> kentry.path, kind |-> infer_kind_from_path(kentry.path)]
    /\ UNCHANGED <<orchVars, parVars, pipeVars, kentry>>

NextKind ==
    \/ KindFromRegistry
    \/ KindFromScan

SpecKind == InitKind /\ [][NextKind]_vars

KindResolved == pc = "kind" /\ ktarget # NoTarget

\* the lower-cased path string contains "/word/": a directory other than the
\* first is named word
InSegment(p, word) ==
    \E k \in 1..Len(p) : k > 1 /\ k < Len(p) /\ Len(p[k]) = 1 /\ Lower(p[k][1]) = word

\* the lower-cased file name contains "icon"
NameHasIcon(p) == \E k \in 1..Len(p[Len(p)]) : Lower(p[Len(p)][k]) = "icon"

IconPath(p) == NameHasIcon(p) \/ InSegment(p, "icons")

SheetPath(p) == \E w \in {"players", "enemies", "bosses", "vfx"} : InSegment(p, w)

\* the registry names the kind itself
ExplicitType == kentry.source = "registry" /\ kentry.type \in {"spritesheet", "icon"}

\* C15, as stated: a registry type spritesheet gives sheet and icon gives icon
\* whatever the path; otherwise, and for every scanned path, every path with a
\* /players/, /enemies/, /bosses/ or /vfx/ segment is sheet, every path whose
\* file name contains icon or that has an /icons/ segment is icon, and every
\* other path is image.
C15_KindAsStated ==
    KindResolved =>
        /\ ktarget.kind \in Kinds
        /\ IF ExplicitType
           THEN ktarget.kind = (IF kentry.type = "spritesheet" THEN "sheet" ELSE "icon")
           ELSE /\ SheetPath(kentry.path) => ktarget.kind = "sheet"
                /\ IconPath(kentry.path) => ktarget.kind = "icon"
                /\ (~SheetPath(kentry.path) /\ ~IconPath(kentry.path))
                      => ktarget.kind = "image"

\* C15, amended: as above, but the icon patterns are tested first; a path is
\* sheet when it matches no icon pattern and has one of the sheet segments.
C15_KindIconFirst ==
    KindResolved =>
        /\ ktarget.kind \in Kinds
        /\ ktarget.path = kentry.path
        /\ IF ExplicitType
           THEN ktarget.kind = (IF kentry.type = "spritesheet" THEN "sheet" ELSE "icon")
           ELSE ktarget.kind = (IF IconPath(kentry.path) THEN "icon"
                                ELSE IF SheetPath(kentry.path) THEN "sheet"
                                ELSE "image")

\* a path with a sheet segment and icon in its file name, resolved by its path
C15_Witness ==
    /\ KindResolved
    /\ ~ExplicitType
    /\ SheetPath(kentry.path)
    /\ NameHasIcon(kentry.path)
    /\ ~InSegment(kentry.path, "icons")
    /\ ktarget.kind = "icon"

\* C16: the image returned by upgrade_image has at most the kind's max_colors
\* distinct RGB triples among its pixels with alpha != 0.
C16_OutputWithinPalette ==
    PipeReturned => Cardinality(VisibleRGB(pout)) <= MaxColors(pkind)

(***************************************************************************)
(* Properties of one target's processing and of the counts                 *)
(***************************************************************************)
\* C17: in a non-dry run, when the processing of a target whose original path
\* held a file ends (by return or by an exception), a file is at that path.
C17_OriginalPathKeepsAFile ==
    [][ ( /\ ~args.dry
          /\ \/ pc = "upgrade" /\ pc' # "upgrade"
             \/ pc = "loop" /\ idx <= Len(targets) /\ fs[CurAbs] # NoFile
                /\ idx' = idx + 1 )
        => fs'[CurAbs] # NoFile ]_vars

\* the run has printed its summary
Summarised == pc = "idle" /\ exit = "0" /\ HasLine(out, "summary")

\* the current target is missing or is itself a preserved file
CurSkippable ==
    fs[CurAbs] = NoFile \/ StartsWith(PathName(CurAbs), Prefix)

\* what holds of the counts in every state
CountsAgree ==
    /\ args.dry => (changed = 0 /\ skipped = 0)
    /\ (~args.dry /\ pc = "loop") => changed + skipped = idx - 1
    /\ (~args.dry /\ Summarised) =>
          /\ changed + skipped = Len(targets)
          /\ out[Len(out)] = Line("summary", <<>>, changed, skipped)

\* C18: in a non-dry run every target of the final list is counted exactly
\* once, so that at the summary upgraded + skipped is the number of targets; a
\* target is counted as upgraded only in the step that writes its upgraded
\* file; a missing or prefixed target is counted as skipped; in a dry run
\* both counts stay 0.
C18_EveryTargetCountedOnce ==
    [][ /\ CountsAgree'
        /\ changed' = changed + 1 =>
              /\ pc = "upgrade"
              /\ skipped' = skipped
              /\ IsImage(fs'[CurAbs])
              /\ writes'[CurAbs] = writes[CurAbs] + 1
        /\ (pc = "loop" /\ ~args.dry /\ idx <= Len(targets) /\ CurSkippable) =>
              /\ skipped' = skipped + 1
              /\ changed' = changed
              /\ fs' = fs ]_vars

\* a finished run that upgraded a target and skipped a preserved file
C18_Witness ==
    /\ Summarised
    /\ ~args.dry
    /\ changed >= 1
    /\ skipped >= 1
    /\ \E k \in 1..Len(targets) :
          /\ StartsWith(PathName(Resolve(targets[k].path)), Prefix)
          /\ fs[Resolve(targets[k].path)] # NoFile

====
